---- MODULE Spec2Model ----
(***************************************************************************)
(* The TotalSegmentator report pipeline: the operator graph composed by    *)
(* App.compose (src/app.py), the two operators of src/totalseg_operator.py *)
(* and the report formatter generate_pdf_report (src/totalseg_pdf.py).     *)
(***************************************************************************)
EXTENDS Integers, Sequences, FiniteSets, TLC

\* ------------------------------------------------------------------ bounds
MaxStudies == 1
MaxSeries == 2
MaxOrgans == 2

SeqsUpTo(S, n) == UNION {[1..k -> S] : k \in 0..n}

Min(a, b) == IF a < b THEN a ELSE b

\* ------------------------------------------------------- studies and series
Modalities == {"CT", "MR"}

\* A study is the sequence of its series, each given by its Modality. A
\* study without series is kept among the inputs: it is what puts an entry
\* without selected series in front of totalseg_op.
Studies == SeqsUpTo(Modalities, MaxSeries)

RECURSIVE SeriesIn(_)
\* The number of series of a study list.
SeriesIn(studies) ==
    IF studies = <<>> THEN 0 ELSE Len(Head(studies)) + SeriesIn(Tail(studies))

\* What the loader can emit on dicom_study_list: the input folder holds at
\* most MaxSeries series, grouped into at most MaxStudies studies.
StudyLists == {sl \in SeqsUpTo(Studies, MaxStudies) : SeriesIn(sl) <= MaxSeries}

\* The rule set of app.py (one selection, Modality == "CT").
Rules_Text == [name |-> "CT Series", Modality |-> "CT"]

\* rules="" : the selector's default when no rules are passed.
NoRules == [name |-> "", Modality |-> ""]

\* The rules the selector is constructed with: none are passed.
SelectorRules == NoRules

SelectedSeries(study, j) == [series |-> j, Modality |-> study[j]]

RECURSIVE Matching(_, _, _)
\* The series of a study satisfying the rule, in scan order, from index j on.
Matching(rule, study, j) ==
    IF j > Len(study) THEN <<>>
    ELSE IF study[j] = rule.Modality
         THEN <<SelectedSeries(study, j)>> \o Matching(rule, study, j + 1)
         ELSE Matching(rule, study, j + 1)

RECURSIVE SelectByRules(_, _, _)
\* One entry per study with a match, holding the first matching series.
SelectByRules(rule, studies, i) ==
    IF i > Len(studies) THEN <<>>
    ELSE LET m == Matching(rule, studies[i], 1)
         IN  (IF m = <<>> THEN <<>>
              ELSE <<[study |-> i, selected_series |-> <<m[1]>>]>>)
             \o SelectByRules(rule, studies, i + 1)

\* Without rules every series of every study is selected.
SelectAll(studies) ==
    [i \in 1..Len(studies) |->
        [study |-> i,
         selected_series |->
            [j \in 1..Len(studies[i]) |-> SelectedSeries(studies[i], j)]]]

\* DICOMSeriesSelectorOperator: study list -> study_selected_series_list.
filter(rules, studies) ==
    IF rules = NoRules THEN SelectAll(studies)
    ELSE SelectByRules(rules, studies, 1)

\* -------------------------------------------------------- statistics record
OrganNames == <<"spleen", "liver", "kidney_right">>

Organs == {OrganNames[i] : i \in 1..Min(MaxOrgans, Len(OrganNames))}

\* str.capitalize() on the organ names.
capitalize(organ) ==
    CASE organ = "spleen" -> "Spleen"
      [] organ = "liver" -> "Liver"
      [] organ = "kidney_right" -> "Kidney_right"

\* The volume (mm3) a segmentation reports for an organ.
VolumeOf(organ) ==
    CASE organ = "spleen" -> 377109
      [] organ = "liver" -> 1650234
      [] organ = "kidney_right" -> 185342

NoVolume == [type |-> "absent", mm3 |-> 0]

\* The JSON values of a 'volume' field: a number, a numeric string, a
\* non-numeric string, null.
VolumeValues(organ) ==
    { [type |-> "float", mm3 |-> VolumeOf(organ)],
      [type |-> "numstr", mm3 |-> VolumeOf(organ)],
      [type |-> "badstr", mm3 |-> 0],
      [type |-> "null", mm3 |-> 0] }

\* The JSON values of one organ's entry: not an object, an object without
\* 'volume', an object with 'volume'.
Details(organ) ==
    { [isdict |-> FALSE, hasvolume |-> FALSE, volume |-> NoVolume],
      [isdict |-> TRUE, hasvolume |-> FALSE, volume |-> NoVolume] }
    \cup { [isdict |-> TRUE, hasvolume |-> TRUE, volume |-> v] :
             v \in VolumeValues(organ) }

Items == UNION { {[organ |-> o, details |-> d] : d \in Details(o)} : o \in Organs }

DistinctKeys(items) ==
    \A i, j \in 1..Len(items) : items[i].organ = items[j].organ => i = j

\* The values json.load can return: a non-object, or an object whose keys
\* are distinct, in file order.
NotAMapping == [isdict |-> FALSE, items |-> <<>>]

Mappings ==
    { [isdict |-> TRUE, items |-> s] :
        s \in {t \in SeqsUpTo(Items, MaxOrgans) : DistinctKeys(t)} }

JsonValues == {NotAMapping} \cup Mappings

\* <output_dir>/statistics.json after the executable has run.
StatisticsFiles ==
    { [state |-> "absent", value |-> NotAMapping],
      [state |-> "malformed", value |-> NotAMapping] }
    \cup { [state |-> "json", value |-> v] : v \in JsonValues }

\* ---------------------------------------------------------------- formatter
\* float(details['volume']): the number, or the exception raised.
float(v) ==
    CASE v.type = "float" -> [exc |-> "none", mm3 |-> v.mm3]
      [] v.type = "numstr" -> [exc |-> "none", mm3 |-> v.mm3]
      [] v.type = "badstr" -> [exc |-> "ValueError", mm3 |-> 0]
      [] OTHER -> [exc |-> "TypeError", mm3 |-> 0]

\* f"{volume_mm3 / 1000.0:.2f}": cm3 rounded to hundredths (the volumes
\* used are not ties).
formatted_volume(mm3) ==
    LET hundredths == (mm3 + 5) \div 10
        frac == hundredths % 100
    IN  ToString(hundredths \div 100) \o "."
        \o (IF frac < 10 THEN "0" ELSE "") \o ToString(frac)

\* The check of line 66 and the try of lines 67-77 for one entry.
Usable(details) ==
    /\ details.isdict
    /\ details.hasvolume
    /\ float(details.volume).exc = "none"

\* The row appended for one (organ, details) item.
Row(item) ==
    IF item.details.isdict /\ item.details.hasvolume
    THEN IF float(item.details.volume).exc = "none"
         THEN <<capitalize(item.organ),
                formatted_volume(float(item.details.volume).mm3)>>
         ELSE <<capitalize(item.organ), "Invalid Data">>
    ELSE <<capitalize(item.organ), "Missing Data">>

Header == <<"Organ", "Volume (cm3)">>

\* Mutant: entries without a usable volume are skipped, as the warnings say.
table_data_skipping(data) ==
    LET RECURSIVE Kept(_)
        Kept(i) == IF i > Len(data.items) THEN <<>>
                   ELSE (IF Usable(data.items[i].details)
                         THEN <<Row(data.items[i])>> ELSE <<>>) \o Kept(i + 1)
    IN  <<Header>> \o Kept(1)

table_data(data) == <<Header>> \o [i \in 1..Len(data.items) |-> Row(data.items[i])]

valid_entries(data) ==
    Cardinality({i \in 1..Len(data.items) : Usable(data.items[i].details)})

\* The blocks of the story; rendering turns the story into the bytes.
Paragraph(text) == [block |-> "Paragraph", text |-> text, rows |-> <<>>]
Spacer == [block |-> "Spacer", text |-> "", rows |-> <<>>]
Table(rows) == [block |-> "Table", text |-> "", rows |-> rows]

None == [isNone |-> TRUE, story |-> <<>>]
Bytes(story) == [isNone |-> FALSE, story |-> story]

Preamble ==
    << Paragraph("Organ Volume Report"), Spacer,
       Paragraph("Report generated on: <now>"), Spacer >>

Returns(value, tbl, built) ==
    [raised |-> FALSE, value |-> value, organ_table |-> tbl, build |-> built]
Raises(tbl, built) ==
    [raised |-> TRUE, value |-> None, organ_table |-> tbl, build |-> built]

\* generate_pdf_report(data); build is what doc.build does when called: "ok"
\* or "fail". In the result, organ_table is the table handed to Table() (<<>>
\* when none is made) and build is doc.build's outcome ("unreached" when it
\* is not called).
generate_pdf_report(data, build) ==
    IF ~data.isdict \/ Len(data.items) = 0
    THEN Returns(None, <<>>, "unreached")
    ELSE IF valid_entries(data) = 0 /\ Len(data.items) > 0
    THEN IF build = "fail"
         THEN Raises(<<>>, build)
         ELSE Returns(Bytes(Preamble \o
                <<Paragraph("No valid organ volume data available to display.")>>),
                <<>>, build)
    ELSE IF valid_entries(data) = 0
    THEN IF build = "fail"
         THEN Raises(<<>>, build)
         ELSE Returns(Bytes(Preamble \o <<Paragraph("Input data was empty.")>>),
                      <<>>, build)
    ELSE IF build = "fail"
         THEN Returns(None, table_data(data), build)
         ELSE Returns(Bytes(Preamble \o <<Table(table_data(data)), Spacer>>),
                      table_data(data), build)

\* ------------------------------------------------------------ the pipeline
Stages == {"dicom_loader", "series_selector", "totalseg_op",
           "totalseg_pdf_op", "pdf_dcm_encapsulator"}

\* CountCondition(self, 1) on the loader.
CountLimit == 1

Port(stage, name) == [stage |-> stage, port |-> name]

\* The five add_flow calls of App.compose.
Flows ==
    { [src |-> Port("dicom_loader", "dicom_study_list"),
       dst |-> Port("series_selector", "dicom_study_list")],
      [src |-> Port("series_selector", "study_selected_series_list"),
       dst |-> Port("totalseg_op", "study_selected_series_list")],
      [src |-> Port("totalseg_op", "report_dict"),
       dst |-> Port("totalseg_pdf_op", "report_dict")],
      [src |-> Port("series_selector", "study_selected_series_list"),
       dst |-> Port("pdf_dcm_encapsulator", "study_selected_series_list")],
      [src |-> Port("totalseg_pdf_op", "pdf_bytes"),
       dst |-> Port("pdf_dcm_encapsulator", "pdf_bytes")] }

InPorts == {f.dst : f \in Flows}
OutPorts == {f.src : f \in Flows}

VARIABLES
    loaderCount,   \* executions the CountCondition has counted
    inbox,         \* input port -> messages delivered and not yet received
    emitted,       \* output port -> values emitted on it, in order
    execCount,     \* stage -> times its compute was entered
    aborted,       \* a fault left a compute: the run is over
    raised,        \* the faults that left a compute: <<stage, exception>>
    segPc,         \* position inside TotalsegmentatorOperator.compute
    data_in,       \* its local data_in
    tempExists,    \* the TemporaryDirectory exists on disk
    exit_codes,    \* exit status of each run of the executable
    statsFile,     \* state of statistics.json at each open(js)
    report,        \* its local report
    segFault,      \* the exception unwinding the with block, or "none"
    segInputs,     \* the values totalseg_op received
    pdfCalls,      \* each call of generate_pdf_report: data, build, result
    encInputs      \* the inputs of each execution of the encapsulator

vars == << loaderCount, inbox, emitted, execCount, aborted, raised, segPc,
           data_in, tempExists, exit_codes, statsFile, report, segFault,
           segInputs, pdfCalls, encInputs >>

segVars == << segPc, data_in, tempExists, exit_codes, statsFile, report,
              segFault, segInputs >>

NoData == <<>>

Init ==
    /\ loaderCount = 0
    /\ inbox = [p \in InPorts |-> <<>>]
    /\ emitted = [p \in OutPorts |-> <<>>]
    /\ execCount = [s \in Stages |-> 0]
    /\ aborted = FALSE
    /\ raised = <<>>
    /\ segPc = "idle"
    /\ data_in = NoData
    /\ tempExists = FALSE
    /\ exit_codes = <<>>
    /\ statsFile = <<>>
    /\ report = NotAMapping
    /\ segFault = "none"
    /\ segInputs = <<>>
    /\ pdfCalls = <<>>
    /\ encInputs = <<>>

\* op_output.emit(value, port): the value goes to every flow bound to the port.
Deliver(src, value, inb) ==
    [p \in InPorts |->
        IF [src |-> src, dst |-> p] \in Flows THEN Append(inb[p], value)
        ELSE inb[p]]

\* op_input.receive on the given ports of a stage.
Consume(ports, inb) ==
    [p \in InPorts |-> IF p \in ports THEN Tail(inb[p]) ELSE inb[p]]

\* A stage may run when every bound input port holds a message.
Ready(stage) ==
    /\ ~aborted
    /\ segPc = "idle"
    /\ \A p \in InPorts : p.stage = stage => inbox[p] # <<>>

Entered(stage) == [execCount EXCEPT ![stage] = @ + 1]

\* Mutant: the count condition is off by one.
LoaderMayRun_OffByOne == loaderCount <= CountLimit

\* The loader's CountCondition.
LoaderMayRun == loaderCount < CountLimit

\* DICOMDataLoaderOperator, gated by CountCondition(1).
Loader ==
    /\ Ready("dicom_loader")
    /\ LoaderMayRun
    /\ \E studies \in StudyLists :
        LET out == Port("dicom_loader", "dicom_study_list")
        IN  /\ inbox' = Deliver(out, studies, inbox)
            /\ emitted' = [emitted EXCEPT ![out] = Append(@, studies)]
    /\ loaderCount' = loaderCount + 1
    /\ execCount' = Entered("dicom_loader")
    /\ UNCHANGED << aborted, raised, segVars, pdfCalls, encInputs >>

\* DICOMSeriesSelectorOperator(self, name="series_selector").
Selector ==
    /\ Ready("series_selector")
    /\ LET in == Port("series_selector", "dicom_study_list")
           out == Port("series_selector", "study_selected_series_list")
           selected == filter(SelectorRules, Head(inbox[in]))
       IN  /\ inbox' = Deliver(out, selected, Consume({in}, inbox))
           /\ emitted' = [emitted EXCEPT ![out] = Append(@, selected)]
    /\ execCount' = Entered("series_selector")
    /\ UNCHANGED << loaderCount, aborted, raised, segVars, pdfCalls, encInputs >>

\* Mutant: the directory is removed on the normal path only.
ExistsAfterWith_LeakOnFault(fault) == fault # "none"

\* with tempfile.TemporaryDirectory() as temp: whether the directory is
\* still on disk after the block is left with the given exception.
ExistsAfterWith(fault) == FALSE

\* compute is entered: receive data_in, create the temporary directory.
SegEnter ==
    /\ Ready("totalseg_op")
    /\ LET in == Port("totalseg_op", "study_selected_series_list")
       IN  /\ data_in' = Head(inbox[in])
           /\ segInputs' = Append(segInputs, Head(inbox[in]))
           /\ inbox' = Consume({in}, inbox)
    /\ tempExists' = TRUE
    /\ segPc' = "with"
    /\ execCount' = Entered("totalseg_op")
    /\ UNCHANGED << loaderCount, emitted, aborted, raised, exit_codes,
                    statsFile, report, segFault, pdfCalls, encInputs >>

\* Mutant: an empty selection is treated as nothing to copy.
FirstSeriesIndexable_Unchecked(d) == TRUE

\* data_in[0].selected_series[0] can be indexed.
FirstSeriesIndexable(d) == Len(d) > 0 /\ Len(d[1].selected_series) > 0

\* The copy loop over data_in[0].selected_series[0]: indexing, then copy2.
SegCopy ==
    /\ ~aborted
    /\ segPc = "with"
    /\ IF ~FirstSeriesIndexable(data_in)
       THEN segFault' = "IndexError" /\ segPc' = "unwind"
       ELSE \E copied \in BOOLEAN :
              IF copied
              THEN segFault' = segFault /\ segPc' = "copied"
              ELSE segFault' = "OSError" /\ segPc' = "unwind"
    /\ UNCHANGED << loaderCount, inbox, emitted, execCount, aborted, raised,
                    data_in, tempExists, exit_codes, statsFile, report,
                    segInputs, pdfCalls, encInputs >>

\* Mutant: the exit status of the executable is not checked.
SegRun_Unchecked ==
    /\ ~aborted
    /\ segPc = "copied"
    /\ \E code \in {0, 1} :
        /\ exit_codes' = Append(exit_codes, code)
        /\ segFault' = segFault
        /\ segPc' = "ran"
    /\ UNCHANGED << loaderCount, inbox, emitted, execCount, aborted, raised,
                    data_in, tempExists, statsFile, report, segInputs,
                    pdfCalls, encInputs >>

\* subprocess.check_output(cmd): a non-zero exit raises.
SegRun ==
    /\ ~aborted
    /\ segPc = "copied"
    /\ \E code \in {0, 1} :
        /\ exit_codes' = Append(exit_codes, code)
        /\ IF code = 0
           THEN segFault' = segFault /\ segPc' = "ran"
           ELSE segFault' = "CalledProcessError" /\ segPc' = "unwind"
    /\ UNCHANGED << loaderCount, inbox, emitted, execCount, aborted, raised,
                    data_in, tempExists, statsFile, report, segInputs,
                    pdfCalls, encInputs >>

\* open(js) and json.load(handle); a removed directory holds no file.
SegRead ==
    /\ ~aborted
    /\ segPc = "ran"
    /\ \E f \in StatisticsFiles :
        /\ ~tempExists => f.state = "absent"
        /\ statsFile' = Append(statsFile, [state |-> f.state, temp |-> tempExists])
        /\ CASE f.state = "absent" ->
                  /\ segFault' = "FileNotFoundError"
                  /\ segPc' = "unwind"
                  /\ report' = report
             [] f.state = "malformed" ->
                  /\ segFault' = "JSONDecodeError"
                  /\ segPc' = "unwind"
                  /\ report' = report
             [] OTHER ->
                  /\ segFault' = segFault
                  /\ segPc' = "loaded"
                  /\ report' = f.value
    /\ UNCHANGED << loaderCount, inbox, emitted, execCount, aborted, raised,
                    data_in, tempExists, exit_codes, segInputs, pdfCalls,
                    encInputs >>

\* The with block is left: the directory is removed; then either the
\* exception leaves compute or the report is emitted on report_dict.
SegExit ==
    /\ ~aborted
    /\ segPc \in {"loaded", "unwind"}
    /\ tempExists' = ExistsAfterWith(segFault)
    /\ IF segFault = "none"
       THEN LET out == Port("totalseg_op", "report_dict")
            IN  /\ inbox' = Deliver(out, report, inbox)
                /\ emitted' = [emitted EXCEPT ![out] = Append(@, report)]
                /\ UNCHANGED << aborted, raised >>
       ELSE /\ aborted' = TRUE
            /\ raised' = Append(raised, <<"totalseg_op", segFault>>)
            /\ UNCHANGED << inbox, emitted >>
    /\ segPc' = "idle"
    /\ data_in' = NoData
    /\ report' = NotAMapping
    /\ segFault' = "none"
    /\ UNCHANGED << loaderCount, execCount, exit_codes, statsFile, segInputs,
                    pdfCalls, encInputs >>

\* Mutant: the report is computed and never emitted.
PdfCompute_NoEmit ==
    /\ Ready("totalseg_pdf_op")
    /\ \E build \in {"ok", "fail"} :
        LET in == Port("totalseg_pdf_op", "report_dict")
            report_dict == Head(inbox[in])
            r == generate_pdf_report(report_dict, build)
        IN  /\ pdfCalls' = Append(pdfCalls, [data |-> report_dict, result |-> r])
            /\ inbox' = Consume({in}, inbox)
            /\ IF r.raised
               THEN /\ aborted' = TRUE
                    /\ raised' = Append(raised, <<"totalseg_pdf_op", "BuildError">>)
               ELSE UNCHANGED << aborted, raised >>
    /\ execCount' = Entered("totalseg_pdf_op")
    /\ UNCHANGED << loaderCount, emitted, segVars, encInputs >>

\* TotalsegmentatorPDFOperator.compute: receive, format, emit.
PdfCompute ==
    /\ Ready("totalseg_pdf_op")
    /\ \E build \in {"ok", "fail"} :
        LET in == Port("totalseg_pdf_op", "report_dict")
            out == Port("totalseg_pdf_op", "pdf_bytes")
            report_dict == Head(inbox[in])
            r == generate_pdf_report(report_dict, build)
        IN  /\ pdfCalls' = Append(pdfCalls, [data |-> report_dict, result |-> r])
            /\ IF r.raised
               THEN /\ aborted' = TRUE
                    /\ raised' = Append(raised, <<"totalseg_pdf_op", "BuildError">>)
                    /\ inbox' = Consume({in}, inbox)
                    /\ emitted' = emitted
               ELSE /\ inbox' = Deliver(out, r.value, Consume({in}, inbox))
                    /\ emitted' = [emitted EXCEPT ![out] = Append(@, r.value)]
                    /\ UNCHANGED << aborted, raised >>
    /\ execCount' = Entered("totalseg_pdf_op")
    /\ UNCHANGED << loaderCount, segVars, encInputs >>

\* DICOMEncapsulatedPDFWriterOperator: receives the series list and the bytes.
Encapsulator ==
    /\ Ready("pdf_dcm_encapsulator")
    /\ LET series == Port("pdf_dcm_encapsulator", "study_selected_series_list")
           pdf == Port("pdf_dcm_encapsulator", "pdf_bytes")
       IN  /\ encInputs' = Append(encInputs,
                [study_selected_series_list |-> Head(inbox[series]),
                 pdf_bytes |-> Head(inbox[pdf])])
           /\ inbox' = Consume({series, pdf}, inbox)
    /\ execCount' = Entered("pdf_dcm_encapsulator")
    /\ UNCHANGED << loaderCount, emitted, aborted, raised, segVars, pdfCalls >>

Next ==
    \/ Loader
    \/ Selector
    \/ SegEnter
    \/ SegCopy
    \/ SegRun
    \/ SegRead
    \/ SegExit
    \/ PdfCompute
    \/ Encapsulator

Spec == Init /\ [][Next]_vars

\* The executor runs the graph until no stage can run.
FairSpec == Spec /\ WF_vars(Next)

\* ------------------------------------------------------------------ claims
LoaderOut == Port("dicom_loader", "dicom_study_list")
SelOut == Port("series_selector", "study_selected_series_list")
ReportOut == Port("totalseg_op", "report_dict")
PdfOut == Port("totalseg_pdf_op", "pdf_bytes")

ReturnedNone(r) == ~r.raised /\ r.value.isNone

\* The claims' reading of an entry, stated on the JSON value alone.
ConvertsToNumber(v) == v.type \in {"float", "numstr"}
IsUsable(d) == d.isdict /\ d.hasvolume /\ ConvertsToNumber(d.volume)
UsableCount(data) == Cardinality({i \in 1..Len(data.items) : IsUsable(data.items[i].details)})
NonEmptyMapping(data) == data.isdict /\ Len(data.items) >= 1
HasBlock(value, kind) == \E k \in 1..Len(value.story) : value.story[k].block = kind
ExplanatoryLine == Paragraph("No valid organ volume data available to display.")

\* C1: whenever generate_pdf_report returns None, nothing is emitted on
\* pdf_bytes and the encapsulator is not executed; the encapsulator never
\* receives a None pdf_bytes.
C1_NullReportNeverEmitted ==
    /\ (\E i \in DOMAIN pdfCalls : ReturnedNone(pdfCalls[i].result))
          => /\ emitted[PdfOut] = <<>>
             /\ execCount["pdf_dcm_encapsulator"] = 0
    /\ \A i \in DOMAIN encInputs : ~encInputs[i].pdf_bytes.isNone

\* The executable exited non-zero, or statistics.json was absent or malformed.
SegmentationFailed ==
    \/ \E i \in DOMAIN exit_codes : exit_codes[i] # 0
    \/ \E i \in DOMAIN statsFile : statsFile[i].state \in {"absent", "malformed"}

\* C2: if the executable exits non-zero, or statistics.json is absent or not
\* JSON, nothing is emitted on report_dict, the fault leaves compute and
\* aborts the run, and neither the formatter stage nor the encapsulator runs.
C2_SegmentationFailureAborts ==
    SegmentationFailed =>
        /\ emitted[ReportOut] = <<>>
        /\ execCount["totalseg_pdf_op"] = 0
        /\ execCount["pdf_dcm_encapsulator"] = 0
        /\ segPc \in {"unwind", "idle"}
        /\ segPc = "idle" =>
              /\ aborted
              /\ \E i \in DOMAIN raised :
                    /\ raised[i][1] = "totalseg_op"
                    /\ raised[i][2] \in {"CalledProcessError", "FileNotFoundError",
                                         "JSONDecodeError"}

C2_Witness ==
    /\ exit_codes = <<1>>
    /\ aborted
    /\ raised = << <<"totalseg_op", "CalledProcessError">> >>

\* C3: whenever doc.build fails, on the table path and on the explanatory
\* line path alike, generate_pdf_report returns None and raises nothing.
C3_BuildFailureBecomesNone ==
    \A i \in DOMAIN pdfCalls :
        pdfCalls[i].result.build = "fail" => ReturnedNone(pdfCalls[i].result)

\* The cell of a row agrees with the entry it was made from.
CellMatches(d, cell) ==
    /\ cell \notin {"Missing Data", "Invalid Data"} <=> IsUsable(d)
    /\ cell = "Missing Data" <=> (~d.isdict \/ ~d.hasvolume)
    /\ cell = "Invalid Data" <=>
          (d.isdict /\ d.hasvolume /\ ~ConvertsToNumber(d.volume))
    /\ IsUsable(d) => cell = formatted_volume(d.volume.mm3)

C5_NullExactlyWhenDegenerate ==
    \A i \in DOMAIN pdfCalls :
        LET data == pdfCalls[i].data
            r == pdfCalls[i].result
        IN  /\ ReturnedNone(r) <=>
                  (~NonEmptyMapping(data) \/ r.build = "fail")
            /\ (NonEmptyMapping(data) /\ UsableCount(data) = 0 /\ r.build # "fail") =>
                  /\ ~r.raised /\ ~r.value.isNone
                  /\ r.value.story[Len(r.value.story)] = ExplanatoryLine
                  /\ ~HasBlock(r.value, "Table")
            /\ (NonEmptyMapping(data) /\ UsableCount(data) >= 1 /\ r.build # "fail") =>
                  /\ ~r.raised /\ ~r.value.isNone
                  /\ HasBlock(r.value, "Table")

\* Selection was non-empty, the executable succeeded, the formatter
\* yielded bytes.
ReportProduced ==
    /\ emitted[SelOut] # <<>>
    /\ emitted[SelOut][1] # <<>>
    /\ exit_codes = <<0>>
    /\ pdfCalls # <<>>
    /\ ~pdfCalls[1].result.raised
    /\ ~pdfCalls[1].result.value.isNone

EncapsulatorInputsIntact ==
    /\ execCount["pdf_dcm_encapsulator"] <= 1
    /\ execCount["pdf_dcm_encapsulator"] = Len(encInputs)
    /\ \A i \in DOMAIN encInputs :
          /\ i \in DOMAIN emitted[SelOut]
          /\ i \in DOMAIN segInputs
          /\ i \in DOMAIN emitted[PdfOut]
          /\ i \in DOMAIN pdfCalls
          /\ encInputs[i].study_selected_series_list = emitted[SelOut][i]
          /\ encInputs[i].study_selected_series_list = segInputs[i]
          /\ encInputs[i].pdf_bytes = emitted[PdfOut][i]
          /\ encInputs[i].pdf_bytes = pdfCalls[i].result.value

\* C6: once selection is non-empty, the executable has succeeded and the
\* formatter has yielded bytes, the encapsulator is eventually executed, it
\* is never executed twice, and its inputs are the selector's emitted list
\* (the one totalseg_op received) and the formatter's emitted bytes.
C6_ReportIsEmbeddedOnce ==
    /\ []EncapsulatorInputsIntact
    /\ ReportProduced ~> (execCount["pdf_dcm_encapsulator"] = 1)

C6_Witness ==
    /\ ReportProduced
    /\ execCount["pdf_dcm_encapsulator"] = 1
    /\ encInputs[1].study_selected_series_list = emitted[SelOut][1]
    /\ encInputs[1].pdf_bytes = emitted[PdfOut][1]
    /\ HasBlock(encInputs[1].pdf_bytes, "Table")

\* C7: the temporary directory exists from the entry of the with block to
\* its exit, statistics.json is read while it exists, and it is gone once
\* compute has been left, whichever way.
C7_TempDirScoped ==
    /\ segPc = "idle" => ~tempExists
    /\ segPc \in {"with", "copied", "ran", "loaded", "unwind"} => tempExists
    /\ \A i \in DOMAIN statsFile : statsFile[i].temp

C7_Witness ==
    /\ execCount["totalseg_op"] = 1
    /\ segPc = "idle"
    /\ raised = << <<"totalseg_op", "JSONDecodeError">> >>
    /\ statsFile # <<>>
    /\ ~tempExists

AllCT(selected) ==
    \A i \in DOMAIN selected :
        \A j \in DOMAIN selected[i].selected_series :
            selected[i].selected_series[j].Modality = "CT"

\* C8: for a study of one CT and one non-CT series the selector emits
\* exactly one entry holding the CT series alone, and no non-CT series
\* reaches totalseg_op or the encapsulator.
C8_OnlyCTSelected ==
    /\ \A i \in DOMAIN emitted[SelOut] :
          emitted[LoaderOut][i] \in { << <<"CT", "MR">> >>, << <<"MR", "CT">> >> }
             => /\ Len(emitted[SelOut][i]) = 1
                /\ Len(emitted[SelOut][i][1].selected_series) = 1
                /\ emitted[SelOut][i][1].selected_series[1].Modality = "CT"
    /\ \A i \in DOMAIN segInputs : AllCT(segInputs[i])
    /\ \A i \in DOMAIN encInputs : AllCT(encInputs[i].study_selected_series_list)

\* C9: every stage executes at most once in a run.
C9_EachStageAtMostOnce ==
    \A s \in Stages : execCount[s] <= 1

C9_Witness ==
    \A s \in Stages : execCount[s] = 1

NothingToSegment(d) == d = <<>> \/ d[1].selected_series = <<>>

\* C10: when the list received by totalseg_op is empty or its first entry
\* holds no series, compute faults with IndexError before the executable
\* runs, emits nothing, the run aborts, and neither the formatter stage nor
\* the encapsulator executes; the selector itself raised nothing.
C10_EmptySelectionFaults ==
    \A i \in DOMAIN segInputs :
        NothingToSegment(segInputs[i]) =>
            /\ exit_codes = <<>>
            /\ statsFile = <<>>
            /\ emitted[ReportOut] = <<>>
            /\ execCount["totalseg_pdf_op"] = 0
            /\ execCount["pdf_dcm_encapsulator"] = 0
            /\ segPc \in {"with", "unwind", "idle"}
            /\ segPc = "unwind" => segFault = "IndexError"
            /\ segPc = "idle" =>
                  /\ aborted
                  /\ raised = << <<"totalseg_op", "IndexError">> >>

C10_Witness ==
    /\ segInputs = << <<>> >>
    /\ emitted[SelOut] = << <<>> >>
    /\ aborted
    /\ raised = << <<"totalseg_op", "IndexError">> >>

====
